---- MODULE Spec2Model ----
(***************************************************************************)
(* Model of src/app/page.tsx: the Home component of the paradigm analyzer. *)
(* State is the three useState cells plus the two values every render      *)
(* derives from them (scenario, recommendation).  A JavaScript Set keeps   *)
(* insertion order, so selectedCriteria is the sequence of its members in  *)
(* insertion order, without duplicates.                                    *)
(***************************************************************************)
EXTENDS Integers, Sequences, FiniteSets, TLC

VARIABLES selectedScenario, selectedCriteria, showComparison, scenario, recommendation

vars == <<selectedScenario, selectedCriteria, showComparison, scenario, recommendation>>

\* ---------------------------------------------------------------- catalogue

\* const scenarios: Scenario[] (display-only fields left out)
scenarios ==
  << [id |-> "game-entities",       recommendation |-> "oop"],
     [id |-> "data-transformation", recommendation |-> "functional"],
     [id |-> "ui-components",       recommendation |-> "hybrid"],
     [id |-> "payment-system",      recommendation |-> "oop"],
     [id |-> "math-utilities",      recommendation |-> "functional"],
     [id |-> "database-models",     recommendation |-> "oop"],
     [id |-> "api-client",          recommendation |-> "oop"] >>

\* variant: the last criterion is tagged with the scenario-only value hybrid
criteriaWithHybrid ==
  << [id |-> "state",         favor |-> "oop"],
     [id |-> "polymorphism",  favor |-> "oop"],
     [id |-> "inheritance",   favor |-> "oop"],
     [id |-> "encapsulation", favor |-> "oop"],
     [id |-> "pure",          favor |-> "functional"],
     [id |-> "composition",   favor |-> "functional"],
     [id |-> "immutability",  favor |-> "functional"],
     [id |-> "simple",        favor |-> "hybrid"] >>

\* const criteria (display-only fields left out)
criteria ==
  << [id |-> "state",         favor |-> "oop"],
     [id |-> "polymorphism",  favor |-> "oop"],
     [id |-> "inheritance",   favor |-> "oop"],
     [id |-> "encapsulation", favor |-> "oop"],
     [id |-> "pure",          favor |-> "functional"],
     [id |-> "composition",   favor |-> "functional"],
     [id |-> "immutability",  favor |-> "functional"],
     [id |-> "simple",        favor |-> "procedural"] >>

\* the JavaScript values undefined and null
Undefined == [undefined |-> TRUE]
Null == [null |-> TRUE]

\* a value that has not been computed yet (engine specification only)
Pending == [pending |-> TRUE]

\* ------------------------------------------------------------ pure helpers

\* Array.prototype.find(e => e.id === id): the first match, or undefined
Find(arr, id) ==
  LET matches == {i \in 1..Len(arr) : arr[i].id = id}
  IN  IF matches = {} THEN Undefined
      ELSE arr[CHOOSE i \in matches : \A j \in matches : i <= j]

\* variant: a criterion that is not found counts as favouring oop
OptionalFavorDefaultOop(criterion) ==
  IF criterion = Undefined THEN "oop" ELSE criterion.favor

\* criterion?.favor : undefined when the criterion was not found
OptionalFavor(criterion) ==
  IF criterion = Undefined THEN "undefined" ELSE criterion.favor

\* variant: counts only the leading run of oop ids (stops at the first other id)
oopScoreLeadingRun(sel) ==
  Cardinality({i \in 1..Len(sel) :
     \A j \in 1..i : OptionalFavor(Find(criteria, sel[j])) = "oop"})

\* Array.from(selectedCriteria).filter(id => find(id)?.favor === 'oop').length
oopScore(sel) ==
  Len(SelectSeq(sel, LAMBDA id : OptionalFavor(Find(criteria, id)) = "oop"))

\* variant: counts every id whose favor is not oop
functionalScoreNotOop(sel) ==
  Len(SelectSeq(sel, LAMBDA id : OptionalFavor(Find(criteria, id)) # "oop"))

functionalScore(sel) ==
  Len(SelectSeq(sel, LAMBDA id : OptionalFavor(Find(criteria, id)) = "functional"))

\* variant: the favor literal is misspelt, so nothing is counted
proceduralScoreMisspelt(sel) ==
  Len(SelectSeq(sel, LAMBDA id : OptionalFavor(Find(criteria, id)) = "procedure"))

proceduralScore(sel) ==
  Len(SelectSeq(sel, LAMBDA id : OptionalFavor(Find(criteria, id)) = "procedural"))

\* variant: the Procedural rule is tested before the Functional rule
getRecommendationProceduralFirst(sel) ==
  IF oopScore(sel) > functionalScore(sel) /\ oopScore(sel) > proceduralScore(sel)
  THEN [paradigm |-> "Object-Oriented", color |-> "#3b82f6"]
  ELSE IF proceduralScore(sel) > 0 /\ proceduralScore(sel) >= oopScore(sel)
  THEN [paradigm |-> "Procedural", color |-> "#f59e0b"]
  ELSE IF functionalScore(sel) > oopScore(sel)
  THEN [paradigm |-> "Functional", color |-> "#10b981"]
  ELSE [paradigm |-> "Hybrid Approach", color |-> "#8b5cf6"]

\* variant: the Procedural rule needs strictly more procedural than oop votes
getRecommendationProceduralStrict(sel) ==
  IF oopScore(sel) > functionalScore(sel) /\ oopScore(sel) > proceduralScore(sel)
  THEN [paradigm |-> "Object-Oriented", color |-> "#3b82f6"]
  ELSE IF functionalScore(sel) > oopScore(sel)
  THEN [paradigm |-> "Functional", color |-> "#10b981"]
  ELSE IF proceduralScore(sel) > 0 /\ proceduralScore(sel) > oopScore(sel)
  THEN [paradigm |-> "Procedural", color |-> "#f59e0b"]
  ELSE [paradigm |-> "Hybrid Approach", color |-> "#8b5cf6"]

\* variant: the Functional rule also compares against proceduralScore
getRecommendationFunctionalSymmetric(sel) ==
  IF oopScore(sel) > functionalScore(sel) /\ oopScore(sel) > proceduralScore(sel)
  THEN [paradigm |-> "Object-Oriented", color |-> "#3b82f6"]
  ELSE IF functionalScore(sel) > oopScore(sel) /\ functionalScore(sel) > proceduralScore(sel)
  THEN [paradigm |-> "Functional", color |-> "#10b981"]
  ELSE IF proceduralScore(sel) > 0 /\ proceduralScore(sel) >= oopScore(sel)
  THEN [paradigm |-> "Procedural", color |-> "#f59e0b"]
  ELSE [paradigm |-> "Hybrid Approach", color |-> "#8b5cf6"]

\* variant: the Object-Oriented rule accepts a tie with functionalScore
getRecommendationOopOnTie(sel) ==
  IF oopScore(sel) >= functionalScore(sel) /\ oopScore(sel) > proceduralScore(sel)
  THEN [paradigm |-> "Object-Oriented", color |-> "#3b82f6"]
  ELSE IF functionalScore(sel) > oopScore(sel)
  THEN [paradigm |-> "Functional", color |-> "#10b981"]
  ELSE IF proceduralScore(sel) > 0 /\ proceduralScore(sel) >= oopScore(sel)
  THEN [paradigm |-> "Procedural", color |-> "#f59e0b"]
  ELSE [paradigm |-> "Hybrid Approach", color |-> "#8b5cf6"]

\* variant: the Procedural result carries the Hybrid color
getRecommendationWrongColor(sel) ==
  IF oopScore(sel) > functionalScore(sel) /\ oopScore(sel) > proceduralScore(sel)
  THEN [paradigm |-> "Object-Oriented", color |-> "#3b82f6"]
  ELSE IF functionalScore(sel) > oopScore(sel)
  THEN [paradigm |-> "Functional", color |-> "#10b981"]
  ELSE IF proceduralScore(sel) > 0 /\ proceduralScore(sel) >= oopScore(sel)
  THEN [paradigm |-> "Procedural", color |-> "#8b5cf6"]
  ELSE [paradigm |-> "Hybrid Approach", color |-> "#8b5cf6"]

\* variant: the Procedural branch is missing
getRecommendationNoProcedural(sel) ==
  IF oopScore(sel) > functionalScore(sel) /\ oopScore(sel) > proceduralScore(sel)
  THEN [paradigm |-> "Object-Oriented", color |-> "#3b82f6"]
  ELSE IF functionalScore(sel) > oopScore(sel)
  THEN [paradigm |-> "Functional", color |-> "#10b981"]
  ELSE [paradigm |-> "Hybrid Approach", color |-> "#8b5cf6"]

\* getRecommendationFromCriteria: the three scores are computed once, then
\* the if / else-if chain runs on them
getRecommendationFromCriteria(sel) ==
  LET oop == oopScore(sel)
      functional == functionalScore(sel)
      procedural == proceduralScore(sel)
  IN  IF oop > functional /\ oop > procedural
      THEN [paradigm |-> "Object-Oriented", color |-> "#3b82f6"]
      ELSE IF functional > oop
      THEN [paradigm |-> "Functional", color |-> "#10b981"]
      ELSE IF procedural > 0 /\ procedural >= oop
      THEN [paradigm |-> "Procedural", color |-> "#f59e0b"]
      ELSE [paradigm |-> "Hybrid Approach", color |-> "#8b5cf6"]

\* variant: null whenever no vote was counted
RenderRecommendationNeedsVote(sel) ==
  IF oopScore(sel) + functionalScore(sel) + proceduralScore(sel) > 0
  THEN getRecommendationFromCriteria(sel) ELSE Null

\* variant: the guard is size > 1
RenderRecommendationOffByOne(sel) ==
  IF Len(sel) > 1 THEN getRecommendationFromCriteria(sel) ELSE Null

\* const recommendation = selectedCriteria.size > 0 ? get...() : null
RenderRecommendation(sel) ==
  IF Len(sel) > 0 THEN getRecommendationFromCriteria(sel) ELSE Null

\* variant: falls back to the first scenario when nothing matches
FindScenarioWithDefault(id) ==
  IF Find(scenarios, id) = Undefined THEN scenarios[1] ELSE Find(scenarios, id)

\* const scenario = scenarios.find(s => s.id === selectedScenario)
FindScenario(id) == Find(scenarios, id)

\* {scenario && ( ... details panel ... )}
DetailsPanelRendered == scenario # Undefined /\ scenario # Pending

\* {recommendation && ( ... recommendation box ... )}
RecommendationShown == recommendation # Null /\ recommendation # Pending

\* Set.prototype.has / delete / add on the insertion-ordered Set
SetHas(set, id) == \E i \in 1..Len(set) : set[i] = id
SetDelete(set, id) == SelectSeq(set, LAMBDA x : x # id)
SetAdd(set, id) == IF SetHas(set, id) THEN set ELSE Append(set, id)

\* ------------------------------------------------------------------ bounds

\* the page specification lets at most this many boxes be checked at once
MaxChecked == 3

\* number of identifiers outside both catalogues offered to the engine
MaxUnknown == 2

\* ------------------------------------------------------------------- page

CriterionIds == {criteria[i].id : i \in 1..Len(criteria)}
ScenarioIds == {scenarios[i].id : i \in 1..Len(scenarios)}

\* the component function body: what a render derives from the state cells
Render ==
  /\ scenario' = FindScenario(selectedScenario')
  /\ recommendation' = RenderRecommendation(selectedCriteria')

Init ==
  /\ selectedScenario = ""
  /\ selectedCriteria = <<>>
  /\ showComparison = FALSE
  /\ scenario = FindScenario("")
  /\ recommendation = RenderRecommendation(<<>>)

\* variant: unchecking starts from an empty Set instead of a copy
toggleCriterionDropsOthers(id) ==
  /\ selectedCriteria' = IF SetHas(selectedCriteria, id)
                         THEN <<>>
                         ELSE SetAdd(selectedCriteria, id)
  /\ UNCHANGED <<selectedScenario, showComparison>>
  /\ Render

\* toggleCriterion(id): copy the Set, delete or add, setSelectedCriteria
toggleCriterion(id) ==
  /\ selectedCriteria' = IF SetHas(selectedCriteria, id)
                         THEN SetDelete(selectedCriteria, id)
                         ELSE SetAdd(selectedCriteria, id)
  /\ UNCHANGED <<selectedScenario, showComparison>>
  /\ Render

\* onChange of the checkbox rendered for each catalogue criterion
ToggleCheckbox ==
  \E i \in 1..Len(criteria) :
    /\ SetHas(selectedCriteria, criteria[i].id) \/ Len(selectedCriteria) < MaxChecked
    /\ toggleCriterion(criteria[i].id)

\* variant: the comparison flag is left as it was
onClickScenarioKeepsFlag(id) ==
  /\ selectedScenario' = id
  /\ UNCHANGED <<showComparison, selectedCriteria>>
  /\ Render

\* variant: clicking the selected scenario again deselects it
onClickScenarioDeselects(id) ==
  /\ selectedScenario' = IF selectedScenario = id THEN "" ELSE id
  /\ showComparison' = FALSE
  /\ UNCHANGED selectedCriteria
  /\ Render

\* onClick of a scenario button: setSelectedScenario(s.id); setShowComparison(false)
onClickScenario(id) ==
  /\ selectedScenario' = id
  /\ showComparison' = FALSE
  /\ UNCHANGED selectedCriteria
  /\ Render

\* the buttons rendered for the catalogue scenarios
SelectScenario ==
  \E i \in 1..Len(scenarios) : onClickScenario(scenarios[i].id)

\* variant: the Show/Hide button is rendered outside the details panel
ToggleComparisonAlwaysRendered ==
  /\ showComparison' = ~showComparison
  /\ UNCHANGED <<selectedScenario, selectedCriteria>>
  /\ Render

\* onClick of the Show/Hide button, which exists only inside the details panel
ToggleComparison ==
  /\ DetailsPanelRendered
  /\ showComparison' = ~showComparison
  /\ UNCHANGED <<selectedScenario, selectedCriteria>>
  /\ Render

Next == ToggleCheckbox \/ SelectScenario \/ ToggleComparison

Spec == Init /\ [][Next]_vars

\* ----------------------------------------------------------------- engine
\* The two pure computations of a render, applied to inputs drawn from
\* bounded sets that also hold identifiers outside the catalogues.

UnknownPool == <<"", "unknown", "Simple", "oop">>
UnknownIds == {UnknownPool[i] : i \in 1..MaxUnknown}

\* every identifier the engine is fed, in one fixed order
IdPool == SubSeq(UnknownPool, 1, MaxUnknown) \o [i \in 1..Len(criteria) |-> criteria[i].id]

Reverse(seq) == [i \in 1..Len(seq) |-> seq[Len(seq) + 1 - i]]

\* each subset of the pool as a Set filled in pool order and in reverse order
EngineSelections ==
  UNION { { SelectSeq(IdPool, LAMBDA x : x \in S),
            Reverse(SelectSeq(IdPool, LAMBDA x : x \in S)) } :
          S \in SUBSET (UnknownIds \cup CriterionIds) }

EngineInit ==
  /\ selectedCriteria \in EngineSelections
  /\ selectedScenario \in ScenarioIds \cup UnknownIds
  /\ showComparison = FALSE
  /\ scenario = Pending
  /\ recommendation = Pending

\* line 545 evaluated on the given selection
EvalRecommendation ==
  /\ recommendation = Pending
  /\ recommendation' = RenderRecommendation(selectedCriteria)
  /\ UNCHANGED <<selectedScenario, selectedCriteria, showComparison, scenario>>

\* line 506 evaluated on the given scenario id
EvalScenario ==
  /\ scenario = Pending
  /\ scenario' = FindScenario(selectedScenario)
  /\ UNCHANGED <<selectedScenario, selectedCriteria, showComparison, recommendation>>

EngineNext == EvalRecommendation \/ EvalScenario

SpecEngine == EngineInit /\ [][EngineNext]_vars

\* ----------------------------------------------------------------- claims

\* the checked identifiers as a set, and the votes each paradigm gets from it
Checked == {selectedCriteria[i] : i \in 1..Len(selectedCriteria)}
Favoring(f) == {criteria[i].id : i \in {j \in 1..Len(criteria) : criteria[j].favor = f}}
VotesFor(f) == Cardinality(Checked \cap Favoring(f))
Computed == recommendation # Pending

ObjectOriented == [paradigm |-> "Object-Oriented", color |-> "#3b82f6"]
Functional == [paradigm |-> "Functional", color |-> "#10b981"]
Procedural == [paradigm |-> "Procedural", color |-> "#f59e0b"]
Hybrid == [paradigm |-> "Hybrid Approach", color |-> "#8b5cf6"]

\* C1: for a non-empty selection the three scores are the numbers of checked
\* ids whose catalogue favor is oop, functional and procedural, and the result
\* is the first matching rule: Object-Oriented if oop > functional and
\* oop > procedural, else Functional if functional > oop, else Procedural if
\* procedural > 0 and procedural >= oop, else Hybrid Approach.
C1_FirstMatchingRule ==
  (Computed /\ Checked # {}) =>
    /\ oopScore(selectedCriteria) = VotesFor("oop")
    /\ functionalScore(selectedCriteria) = VotesFor("functional")
    /\ proceduralScore(selectedCriteria) = VotesFor("procedural")
    /\ recommendation.paradigm =
         IF VotesFor("oop") > VotesFor("functional") /\ VotesFor("oop") > VotesFor("procedural")
         THEN "Object-Oriented"
         ELSE IF VotesFor("functional") > VotesFor("oop")
         THEN "Functional"
         ELSE IF VotesFor("procedural") > 0 /\ VotesFor("procedural") >= VotesFor("oop")
         THEN "Procedural"
         ELSE "Hybrid Approach"

\* a selection where only the order of the rules decides: functional beats oop
\* while procedural ties functional
C1_Witness ==
  /\ Computed
  /\ VotesFor("oop") = 0 /\ VotesFor("functional") = 1 /\ VotesFor("procedural") = 1
  /\ recommendation.paradigm = "Functional"

ThreeWayTie ==
  /\ VotesFor("oop") = VotesFor("functional")
  /\ VotesFor("functional") = VotesFor("procedural")
  /\ VotesFor("procedural") > 0

\* C2 as stated: when the three counts are equal and nonzero the result is
\* Hybrid Approach.
C2_TieIsHybrid ==
  (Computed /\ ThreeWayTie) => recommendation.paradigm = "Hybrid Approach"

\* C2 as amended: when the three counts are equal and nonzero the result is
\* Procedural (the Procedural rule matches before the Hybrid fallback).
C2_TieIsProcedural ==
  (Computed /\ ThreeWayTie) => recommendation = Procedural

C2_Witness ==
  /\ Computed /\ ThreeWayTie
  /\ Checked = {"state", "pure", "simple"}
  /\ recommendation = Procedural

\* C3: whenever functional > oop the result is Functional, whatever the
\* procedural count is.
C3_FunctionalIgnoresProcedural ==
  (Computed /\ VotesFor("functional") > VotesFor("oop")) =>
    recommendation.paradigm = "Functional"

C3_Witness ==
  /\ Computed
  /\ Checked = {"pure", "simple"}
  /\ VotesFor("procedural") >= VotesFor("functional")
  /\ recommendation.paradigm = "Functional"

Paradigms == {"Object-Oriented", "Functional", "Procedural", "Hybrid Approach"}
Colors == {"#3b82f6", "#10b981", "#f59e0b", "#8b5cf6"}

\* C4: on the page the recommendation is null (nothing shown) exactly when no
\* criterion is checked; otherwise it carries a paradigm and a color.
C4_NullIffEmpty ==
  /\ (recommendation = Null) <=> (Checked = {})
  /\ RecommendationShown <=> (Checked # {})
  /\ (Checked # {}) =>
       /\ DOMAIN recommendation = {"paradigm", "color"}
       /\ recommendation.paradigm \in Paradigms
       /\ recommendation.color \in Colors

C4_Witness ==
  /\ Cardinality(Checked) = 1
  /\ RecommendationShown
  /\ recommendation.paradigm \in Paradigms

\* C5: a non-empty selection whose ids all favor one paradigm gives that
\* paradigm with its color.
C5_SingleParadigm ==
  (Computed /\ Checked # {}) =>
    /\ (Checked \subseteq Favoring("oop")) => recommendation = ObjectOriented
    /\ (Checked \subseteq Favoring("functional")) => recommendation = Functional
    /\ (Checked = {"simple"}) => recommendation = Procedural

C5_Witness ==
  /\ Computed
  /\ Checked = {"simple"}
  /\ recommendation = Procedural

\* C6: oop == functional >= 1 with no procedural vote gives Hybrid Approach,
\* purple.
C6_TwoWayTieIsHybrid ==
  (/\ Computed
   /\ VotesFor("oop") = VotesFor("functional")
   /\ VotesFor("oop") >= 1
   /\ VotesFor("procedural") = 0) => recommendation = Hybrid

C6_Witness ==
  /\ Computed
  /\ Checked = {"state", "pure"}
  /\ recommendation = Hybrid

\* the selection with every id outside the criteria catalogue taken out
KnownOnly == SelectSeq(selectedCriteria, LAMBDA id : id \in CriterionIds)

\* C7: ids outside the catalogue contribute to no score: with at least one
\* catalogue id checked, the result for S u U is the result for S, and it is
\* always one of the four results.
C7_UnknownIdsIgnored ==
  (Computed /\ Checked \cap CriterionIds # {}) =>
    /\ recommendation = RenderRecommendation(KnownOnly)
    /\ recommendation \in {ObjectOriented, Functional, Procedural, Hybrid}

C7_Witness ==
  /\ Computed
  /\ Checked \cap CriterionIds = {"pure"}
  /\ Cardinality(Checked \ CriterionIds) = 2
  /\ recommendation = Functional

\* the checked set listed in catalogue order
CatalogueOrder ==
  SelectSeq([i \in 1..Len(criteria) |-> criteria[i].id], LAMBDA id : id \in Checked)

\* C8: the recommendation on the page is determined by the set of checked
\* criteria alone: it is what the set gives in catalogue order, whatever the
\* order of toggles, the selected scenario and the comparison flag.
C8_OrderIndependent ==
  recommendation = RenderRecommendation(CatalogueOrder)

C8_Witness ==
  /\ selectedCriteria = <<"simple", "polymorphism", "state">>
  /\ selectedScenario = "api-client"
  /\ showComparison
  /\ recommendation = ObjectOriented

\* C9: every result pairs the paradigm with its own color.
C9_FixedColor ==
  (Computed /\ recommendation # Null) =>
    recommendation.color =
      CASE recommendation.paradigm = "Object-Oriented" -> "#3b82f6"
        [] recommendation.paradigm = "Functional" -> "#10b981"
        [] recommendation.paradigm = "Procedural" -> "#f59e0b"
        [] recommendation.paradigm = "Hybrid Approach" -> "#8b5cf6"
        [] OTHER -> "none"

C9_Witness ==
  /\ Computed
  /\ recommendation # Null
  /\ recommendation.paradigm = "Procedural"
  /\ recommendation.color = "#f59e0b"

\* C10: scenario lookup returns the one record with the given id for every
\* catalogue id, and undefined (no details panel) for every other id,
\* the empty string included.
C10_LookupTotalAndExact ==
  (scenario # Pending) =>
    /\ (selectedScenario \in ScenarioIds) =>
         /\ Cardinality({i \in 1..Len(scenarios) : scenarios[i].id = selectedScenario}) = 1
         /\ \E i \in 1..Len(scenarios) : scenario = scenarios[i]
         /\ scenario.id = selectedScenario
         /\ DetailsPanelRendered
    /\ (selectedScenario \notin ScenarioIds) =>
         /\ scenario = Undefined
         /\ ~DetailsPanelRendered

C10_Witness ==
  /\ scenario # Pending
  /\ selectedScenario = ""
  /\ scenario = Undefined
  /\ ~DetailsPanelRendered

ScenarioParadigms == {"oop", "functional", "procedural", "hybrid"}
CriterionParadigms == {"oop", "functional", "procedural"}

\* C11: every catalogue scenario (so also the one shown in the details panel)
\* has a recommendation among oop, functional, procedural, hybrid; every
\* criterion has a favor among oop, functional, procedural; none favors hybrid.
C11_CatalogueEnumerations ==
  /\ \A i \in 1..Len(scenarios) : scenarios[i].recommendation \in ScenarioParadigms
  /\ \A i \in 1..Len(criteria) : criteria[i].favor \in CriterionParadigms
  /\ \A i \in 1..Len(criteria) : criteria[i].favor # "hybrid"
  /\ DetailsPanelRendered => scenario.recommendation \in ScenarioParadigms
  /\ \A id \in Checked : OptionalFavor(Find(criteria, id)) \in CriterionParadigms

C11_Witness ==
  /\ DetailsPanelRendered
  /\ scenario.recommendation = "hybrid"
  /\ Checked = {"simple"}
  /\ OptionalFavor(Find(criteria, "simple")) = "procedural"

\* C12: Hybrid Approach only comes out of a tie between the oop and the
\* functional count.
C12_HybridOnlyOnTie ==
  (Computed /\ recommendation # Null) =>
    (recommendation.paradigm = "Hybrid Approach" =>
       VotesFor("oop") = VotesFor("functional"))

C12_Witness ==
  /\ Computed
  /\ recommendation = Hybrid
  /\ VotesFor("oop") = 3
  /\ VotesFor("functional") = 3
  /\ VotesFor("procedural") = 1

\* what toggling id must do to the checked set and to the rest of the state
Flipped(id) ==
  /\ (id \in Checked') <=> (id \notin Checked)
  /\ \A other \in (CriterionIds \cup Checked \cup Checked') \ {id} :
       (other \in Checked') <=> (other \in Checked)
  /\ Len(selectedCriteria') = Cardinality(Checked')
  /\ selectedScenario' = selectedScenario
  /\ showComparison' = showComparison

\* C13: every toggleCriterion(id) step flips the membership of id in the
\* checked set and changes nothing else: every other id keeps its membership,
\* the selected scenario and the comparison flag stay as they were.
C13_ToggleFlipsOnlyId ==
  [][\A id \in CriterionIds : toggleCriterion(id) => Flipped(id)]_vars

C13_Witness ==
  /\ selectedCriteria = <<"pure", "state">>
  /\ selectedScenario = "payment-system"
  /\ showComparison
  /\ recommendation = Hybrid

\* C14: every click on a scenario button, also on the selected one, sets the
\* selected scenario to that id, hides the comparison and keeps the checked
\* criteria (and so the recommendation) unchanged.
C14_SelectResetsComparison ==
  [][\A id \in ScenarioIds :
       onClickScenario(id) =>
         /\ selectedScenario' = id
         /\ scenario'.id = id
         /\ ~showComparison'
         /\ Checked' = Checked
         /\ selectedCriteria' = selectedCriteria
         /\ recommendation' = recommendation]_vars

C14_Witness ==
  /\ selectedScenario = "math-utilities"
  /\ scenario.id = "math-utilities"
  /\ ~showComparison
  /\ Checked = {"state", "simple"}

\* C15: the comparison is shown only while a catalogue scenario is selected
\* and its details panel is rendered.
C15_ComparisonNeedsScenario ==
  showComparison => (selectedScenario \in ScenarioIds /\ DetailsPanelRendered)

C15_Witness ==
  /\ showComparison
  /\ selectedScenario = "ui-components"
  /\ DetailsPanelRendered

\* C16: on the page the checked set is a subset of the eight catalogue
\* criterion ids, so the three scores add up to the size of the checked set.
C16_ScoresSumToSize ==
  /\ Checked \subseteq CriterionIds
  /\ Cardinality(CriterionIds) = 8
  /\ Len(selectedCriteria) = Cardinality(Checked)
  /\ oopScore(selectedCriteria) + functionalScore(selectedCriteria)
       + proceduralScore(selectedCriteria) = Len(selectedCriteria)

C16_Witness ==
  /\ Checked = {"inheritance", "immutability", "simple"}
  /\ oopScore(selectedCriteria) = 1
  /\ functionalScore(selectedCriteria) = 1
  /\ proceduralScore(selectedCriteria) = 1

\* C17: once a scenario is selected, a scenario is selected in the next state
\* too: no step brings the selection back to the initial empty value.
C17_ScenarioStaysSelected ==
  [][(selectedScenario \in ScenarioIds) =>
       (selectedScenario' \in ScenarioIds /\ selectedScenario' # "")]_vars

C17_Witness ==
  /\ selectedScenario = "database-models"
  /\ scenario # Undefined
  /\ Checked = {}

\* C18: a non-empty selection made only of ids outside the criteria catalogue
\* is not answered with nothing: the three scores are 0 and the result is
\* Hybrid Approach, purple.
C18_UnknownOnlyIsHybrid ==
  (Computed /\ Checked # {} /\ Checked \cap CriterionIds = {}) =>
    /\ oopScore(selectedCriteria) = 0
    /\ functionalScore(selectedCriteria) = 0
    /\ proceduralScore(selectedCriteria) = 0
    /\ recommendation # Null
    /\ recommendation = Hybrid

C18_Witness ==
  /\ Computed
  /\ Checked = {"", "unknown"}
  /\ recommendation = Hybrid

====
